---- MODULE Spec2Model ----
(***************************************************************************)
(* Chat rendering front-end of OpenDerisk.                                 *)
(*                                                                         *)
(*   - VisTabs (web/components/chat/chat-content/vis-tabs.tsx): the tabbed *)
(*     agent-output view, its active key and its "user is active" flag.    *)
(*   - ChatContent (the chat-content component): the useMemo that splits   *)
(*     off the relations suffix and replaces <dbgpt-view> tags by          *)
(*     <custom-view> placeholders, and the custom-view renderer with its   *)
(*     status mapper.                                                      *)
(*                                                                         *)
(* React runs each event (a new data prop, a tab click, an emitted         *)
(* TASK_CLICK) to completion: the handler's state updates are batched,     *)
(* the component re-renders and the effects of that render run before the  *)
(* next event is dispatched.  One action is one such event.                *)
(***************************************************************************)
EXTENDS Naturals, Sequences, FiniteSets, TLC

\* Every record field of the model, in the order in which records list them.
\* TLC keeps the fields of a record in the order in which it first met their
\* names, and every record constructor below lists its fields in this order.
FieldNames ==
    [acc |-> {}, activeKey |-> {}, bgClass |-> {}, body |-> {},
     cache |-> {}, cacheIndex |-> {}, children |-> {}, completed |-> {},
     defined |-> {}, err_msg |-> {}, failed |-> {}, flagBefore |-> {},
     hasResult |-> {}, icon |-> {}, isNull |-> {}, isUserActive |-> {},
     Jc |-> {}, Jf |-> {}, Jn |-> {}, Jt |-> {}, Ju |-> {}, key |-> {},
     kind |-> {}, name |-> {}, obj |-> {}, ok |-> {}, output |-> {},
     result |-> {}, runing |-> {}, status |-> {}, style |-> {},
     task_id |-> {}, text |-> {}, threw |-> {}, thrown |-> {}, todo |-> {},
     type |-> {}, wasLast |-> {}]

VARIABLES
    \* ---- VisTabs ----
    data,           \* the data prop of the latest render (VisTabsData[])
    mountData,      \* the data prop of the first render, which the TASK_CLICK
                    \* listener registered by useEffect(..., []) closes over
    activeKey,      \* useState(getLastActiveKey(data))
    isUserActive,   \* useState(false)
    tabItems,       \* items={getTabItems()} of the latest render
    \* ---- VisTabs, the module-level emitter ee ----
    mounted,        \* a VisTabs is mounted
    listeners,      \* number of TASK_CLICK listeners registered on ee
    \* ---- VisTabs, history of the run ----
    lastEvent,      \* "mount", "data", "tab", "ext", "unmount" or "orphan" (a
                    \* TASK_CLICK that found no mounted view): the last event
    sel,            \* the last user selection (see NoSel, Selection)
    specKey,        \* active key according to the transition rules of the design
    specFlag,       \* user-driving flag according to those rules
    \* ---- ChatContent ----
    context,        \* the context of the message being rendered
    value,          \* useMemo: the processed text
    cachePluginContext, \* useMemo: the cached views
    rendered,       \* what the custom-view component returned last
    crashed,        \* an exception escaped the last computation
    \* ---- ChatContent, history of the run ----
    frags,          \* the fragments the current context was assembled from
    msgNo,          \* number of messages rendered so far
    prevViews       \* number of views the previous message cached

tabVars ==
    <<data, mountData, activeKey, isUserActive, tabItems, lastEvent, sel, specKey, specFlag>>

lifeVars == <<mounted, listeners>>

chatVars == <<context, value, cachePluginContext, rendered, crashed, frags, msgNo, prevViews>>

vars == <<tabVars, lifeVars, chatVars>>

-----------------------------------------------------------------------------
(* Bounds *)

NumTasks == 3

MaxLen == 3

MaxMountLen == 2

MaxFrags == 2

MaxMsgs == 2

MaxMounts == 2

-----------------------------------------------------------------------------
(* VisTabs: data *)

TaskNames == <<"T1", "T2", "T3", "T4", "T5", "T6">>

TaskIds == {TaskNames[i] : i \in 1..NumTasks}

\* A VisTabsData record.  Only task_id is read by the tab state machine; the
\* other fields (name, status, num, agent, avatar, markdown) are display data.
VisTabsData == [task_id : TaskIds]

\* Task ids are the keys of the tab items, so one output sequence carries
\* each task id at most once.
DistinctIds(d) == \A i, j \in 1..Len(d) : d[i].task_id = d[j].task_id => i = j

DataUpTo(n) == {d \in UNION {[1..k -> VisTabsData] : k \in 0..n} : DistinctIds(d)}

AllData == DataUpTo(MaxLen)

getLastActiveKey(d) == IF Len(d) > 0 THEN d[Len(d)].task_id ELSE ""

\* Items keyed by position instead of by task_id.
getTabItemsByIndex(d) == [i \in 1..Len(d) |-> [key |-> TaskNames[i]]]

\* Keys of the items handed to <Tabs>: one per record, in order.
getTabItems(d) == [i \in 1..Len(d) |-> [key |-> d[i].task_id]]

TabKeys(d) == {getTabItems(d)[i].key : i \in 1..Len(d)}

-----------------------------------------------------------------------------
(* VisTabs: handlers *)

\* A setTabActiveByUser that compares with the data of the first render
\* whatever render it was defined in.
setTabActiveByUserStale(key, d) ==
    [activeKey    |-> key,
     isUserActive |-> IF key = getLastActiveKey(mountData) THEN FALSE ELSE TRUE]

\* A setTabActiveByUser that leaves the active key alone on the last key.
setTabActiveByUserFlagOnly(key, d) ==
    [activeKey    |-> IF key = getLastActiveKey(d) THEN activeKey ELSE key,
     isUserActive |-> IF key = getLastActiveKey(d) THEN FALSE ELSE TRUE]

\* setTabActiveByUser(key) as defined in the render whose data prop is d:
\* the state it leaves behind.
setTabActiveByUser(key, d) ==
    [activeKey    |-> key,
     isUserActive |-> IF key = getLastActiveKey(d) THEN FALSE ELSE TRUE]

\* A first render that opens the first tab.
MountStateFirst(d) ==
    [activeKey |-> IF Len(d) > 0 THEN d[1].task_id ELSE "", isUserActive |-> FALSE]

\* The state of the first render: useState(getLastActiveKey(data)) and
\* useState(false).
MountState(d) == [activeKey |-> getLastActiveKey(d), isUserActive |-> FALSE]

\* A [data] effect that never moves the active key.
DataEffectKeep(d, key, userActive) == key

\* A [data] effect that does not look at isUserActive.
DataEffectAlways(d, key, userActive) == getLastActiveKey(d)

\* A [data] effect with its test the wrong way round.
DataEffectInverted(d, key, userActive) ==
    IF userActive THEN getLastActiveKey(d) ELSE key

\* The [data] effect, run after the render that received d.
DataEffect(d, key, userActive) ==
    IF ~userActive THEN getLastActiveKey(d) ELSE key

\* <Tabs onChange={setTabActiveByUser}>: onChange is the function of the
\* latest render, so it reads the current data.
OnChangeResult(key) == setTabActiveByUser(key, data)

\* ee.on(EVENTS.TASK_CLICK, ...) inside useEffect(..., []): the listener is
\* created once, by the mount effect, and calls the setTabActiveByUser of the
\* first render, which reads the data of the first render.
TaskClickResult(taskId) == setTabActiveByUser(taskId, mountData)

\* What the design's rule for a user selection gives in the current state.
RuleSelect(key) ==
    [activeKey |-> key, isUserActive |-> key # getLastActiveKey(data)]

NoSel == [flagBefore |-> FALSE, key |-> "", kind |-> "none", wasLast |-> FALSE]

Selection(kind, key) ==
    [flagBefore |-> isUserActive,
     key |-> key,
     kind |-> kind,
     wasLast |-> (key = getLastActiveKey(data))]

\* The user clicks the tab with this key.
OnChange(key) ==
    /\ key \in TabKeys(data)
    /\ LET r == OnChangeResult(key) IN
         /\ activeKey' = r.activeKey
         /\ isUserActive' = r.isUserActive
    /\ LET s == RuleSelect(key) IN
         /\ specKey' = s.activeKey
         /\ specFlag' = s.isUserActive
    /\ sel' = Selection("tab", key)
    /\ lastEvent' = "tab"
    /\ tabItems' = getTabItems(data)
    /\ UNCHANGED <<data, mountData>>
    /\ UNCHANGED <<lifeVars, chatVars>>

\* ee.emit(EVENTS.TASK_CLICK, {taskId}) somewhere in the page.
TaskClick(taskId) ==
    /\ LET r == TaskClickResult(taskId) IN
         /\ activeKey' = r.activeKey
         /\ isUserActive' = r.isUserActive
    /\ LET s == RuleSelect(taskId) IN
         /\ specKey' = s.activeKey
         /\ specFlag' = s.isUserActive
    /\ sel' = Selection("ext", taskId)
    /\ lastEvent' = "ext"
    /\ tabItems' = getTabItems(data)
    /\ UNCHANGED <<data, mountData>>
    /\ UNCHANGED <<lifeVars, chatVars>>

\* The parent re-renders VisTabs with a new data array; the [data] effect runs.
DataArrive(d) ==
    /\ data' = d
    /\ activeKey' = DataEffect(d, activeKey, isUserActive)
    /\ specKey' = IF ~specFlag THEN getLastActiveKey(d) ELSE specKey
    /\ lastEvent' = "data"
    /\ tabItems' = getTabItems(d)
    /\ UNCHANGED <<mountData, isUserActive, sel, specFlag>>
    /\ UNCHANGED <<lifeVars, chatVars>>

\* A VisTabs is mounted with this data prop: first render, then the mount
\* effect, which registers one more TASK_CLICK listener on ee.
Mount(d) ==
    /\ ~mounted
    /\ listeners < MaxMounts
    /\ mounted' = TRUE
    /\ listeners' = listeners + 1
    /\ data' = d
    /\ mountData' = d
    /\ LET r == MountState(d) IN
         /\ activeKey' = r.activeKey
         /\ isUserActive' = r.isUserActive
    /\ tabItems' = getTabItems(d)
    /\ lastEvent' = "mount"
    /\ sel' = NoSel
    /\ specKey' = getLastActiveKey(d)
    /\ specFlag' = FALSE
    /\ UNCHANGED chatVars

\* The VisTabs is unmounted: its state is gone.  Neither effect returns a
\* cleanup function, so nothing is taken off ee.
Unmount ==
    /\ mounted
    /\ mounted' = FALSE
    /\ listeners' = listeners
    /\ data' = <<>>
    /\ mountData' = <<>>
    /\ activeKey' = ""
    /\ isUserActive' = FALSE
    /\ tabItems' = <<>>
    /\ lastEvent' = "unmount"
    /\ sel' = NoSel
    /\ specKey' = ""
    /\ specFlag' = FALSE
    /\ UNCHANGED chatVars

\* ee.emit(EVENTS.TASK_CLICK, {taskId}) while no VisTabs is mounted: the
\* listeners still on ee run the setTabActiveByUser of views that are gone.
EmitToUnmounted(taskId) ==
    /\ ~mounted
    /\ listeners > 0
    /\ lastEvent' = "orphan"
    /\ UNCHANGED <<data, mountData, activeKey, isUserActive, tabItems, sel, specKey, specFlag>>
    /\ UNCHANGED <<lifeVars, chatVars>>

LiveDataArrive(d) == mounted /\ DataArrive(d)

LiveOnChange(key) == mounted /\ OnChange(key)

LiveTaskClick(taskId) == mounted /\ TaskClick(taskId)

-----------------------------------------------------------------------------
(* ChatContent: text *)

\* A text is a sequence of characters.  The characters that matter to the
\* two regular expressions stand alone ("<", ">", "/"); "v" is the tag name
\* dbgpt-view, "nl" a line feed, "bsn" the two characters backslash n, "R" the
\* separator "\trelations:", "x" any other character.  A JSON text that holds
\* none of these is one character:
\*   "Jc"   {"name":"scan","status":"completed","result":"ok\\n"}
\*   "Ju"   {"name":"probe","status":"paused","err_msg":"denied"}
\*   "Jt"   {"name":"plan","status":"todo"}
\*   "Jf"   {"name":"exec","status":"failed","err_msg":"boom"}
\*   "Jn"   {"name":"bare"}
\*   "S"    {"name":"logs","status":"runing","result":"      (string left open)
\*   "E"    "}                                              (closes it)
\*   "B"    {"name":                                        (not JSON)
\*   "null" null
\* "<custom-view>", a numeral and "</custom-view>" make a placeholder.
Numerals == <<"0", "1", "2", "3", "4", "5", "6", "7", "8", "9", "10", "11", "12">>

Numeral(i) == Numerals[i + 1]

\* +children.toString()
ToNumber(ch) == CHOOSE i \in 0..(Len(Numerals) - 1) : Numerals[i + 1] = ch

Undefined == "undefined"

JsonObjects ==
    [Jc |-> [err_msg |-> Undefined,
             hasResult |-> TRUE,
             name |-> "scan",
             result |-> <<"o", "k", "bsn">>,
             status |-> "completed"],
     Jf |-> [err_msg |-> "boom",
             hasResult |-> FALSE,
             name |-> "exec",
             result |-> <<>>,
             status |-> "failed"],
     Jn |-> [err_msg |-> Undefined,
             hasResult |-> FALSE,
             name |-> "bare",
             result |-> <<>>,
             status |-> Undefined],
     Jt |-> [err_msg |-> Undefined,
             hasResult |-> FALSE,
             name |-> "plan",
             result |-> <<>>,
             status |-> "todo"],
     Ju |-> [err_msg |-> "denied",
             hasResult |-> FALSE,
             name |-> "probe",
             result |-> <<>>,
             status |-> "paused"]]

\* The object a JSON text S ... E denotes: JSON.parse turns the escape \n
\* inside the string into a line feed.
StringObject(body) ==
    [err_msg |-> Undefined,
     hasResult |-> TRUE,
     name |-> "logs",
     result |-> [i \in 1..Len(body) |-> IF body[i] = "bsn" THEN "nl" ELSE body[i]],
     status |-> "runing"]

\* JSON.parse(s): [ok |-> FALSE] is a SyntaxError.
JSONparse(s) ==
    IF Len(s) = 1 /\ s[1] \in DOMAIN JsonObjects
      THEN [isNull |-> FALSE, obj |-> JsonObjects[s[1]], ok |-> TRUE]
    ELSE IF s = <<"null">>
      THEN [isNull |-> TRUE, ok |-> TRUE]
    ELSE IF /\ Len(s) >= 2
            /\ s[1] = "S"
            /\ s[Len(s)] = "E"
            /\ \A i \in 2..(Len(s) - 1) : s[i] \in {"x", "bsn"}
      THEN [isNull |-> FALSE,
            obj |-> StringObject(SubSeq(s, 2, Len(s) - 1)),
            ok |-> TRUE]
    ELSE [ok |-> FALSE]

\* Index of the first c in t at or after position from; 0 when there is none.
IndexOf(t, c, from) ==
    IF \E i \in from..Len(t) : t[i] = c
      THEN CHOOSE i \in from..Len(t) : t[i] = c /\ \A j \in from..(i - 1) : t[j] # c
      ELSE 0

\* /<dbgpt-view[^>]*>[^<]*<\/dbgpt-view>/gi tried at position p of t: the
\* position of the last character of the match, 0 when there is no match.
\* [^>]* must stop at the first ">" and [^<]* at the first "<" after it.
MatchEnd(t, p) ==
    IF p + 1 <= Len(t) /\ t[p] = "<" /\ t[p + 1] = "v"
      THEN LET q == IndexOf(t, ">", p + 2) IN
           IF q = 0 THEN 0
           ELSE LET r == IndexOf(t, "<", q + 1) IN
                IF r # 0 /\ r + 3 <= Len(t)
                   /\ t[r + 1] = "/" /\ t[r + 2] = "v" /\ t[r + 3] = ">"
                  THEN r + 3
                  ELSE 0
      ELSE 0

\* matchVal.replaceAll('\n', '\\n')
EscapeNewlines(t) == [i \in 1..Len(t) |-> IF t[i] = "nl" THEN "bsn" ELSE t[i]]

\* .replace(/<[^>]*>|<\/[^>]*>/gm, ''): every "<" up to the next ">" goes.
RECURSIVE StripTags(_, _)
StripTags(t, i) ==
    IF i > Len(t) THEN <<>>
    ELSE IF t[i] = "<" /\ IndexOf(t, ">", i + 1) # 0
      THEN StripTags(t, IndexOf(t, ">", i + 1) + 1)
      ELSE <<t[i]>> \o StripTags(t, i + 1)

\* formatMarkdownVal: replaceAll('\\n', '\n'); the <table and <tr rewrites
\* need a "<", which no result string of the texts modelled here holds.
formatMarkdownVal(val) ==
    [i \in 1..Len(val) |-> IF val[i] = "bsn" THEN "nl" ELSE val[i]]

Placeholder(i) == <<"<custom-view>", Numeral(i), "</custom-view>">>

\* {...pluginContext, result: formatMarkdownVal(pluginContext.result ?? '')}
CachedView(obj) ==
    [err_msg |-> obj.err_msg,
     name |-> obj.name,
     result |-> formatMarkdownVal(IF obj.hasResult THEN obj.result ELSE <<>>),
     status |-> obj.status]

\* A try block that forgets cacheIndex++.
TryReplaceSameIndex(matchVal, acc) ==
    LET pluginVal == StripTags(EscapeNewlines(matchVal), 1)
        parsed == JSONparse(pluginVal)
    IN IF ~parsed.ok \/ parsed.isNull
         THEN [acc |-> acc, thrown |-> TRUE]
         ELSE [acc |-> [cache |-> Append(acc.cache, CachedView(parsed.obj)),
                        cacheIndex |-> acc.cacheIndex,
                        output |-> acc.output \o Placeholder(acc.cacheIndex),
                        threw |-> acc.threw],
               thrown |-> FALSE]

\* The body of the try block for one match: thrown is TRUE when JSON.parse
\* throws a SyntaxError or pluginContext.result is read off null.  Nothing has
\* been pushed and cacheIndex has not moved when either happens.
TryReplace(matchVal, acc) ==
    LET pluginVal == StripTags(EscapeNewlines(matchVal), 1)
        parsed == JSONparse(pluginVal)
    IN IF ~parsed.ok \/ parsed.isNull
         THEN [acc |-> acc, thrown |-> TRUE]
         ELSE [acc |-> [cache |-> Append(acc.cache, CachedView(parsed.obj)),
                        cacheIndex |-> acc.cacheIndex + 1,
                        output |-> acc.output \o Placeholder(acc.cacheIndex),
                        threw |-> acc.threw],
               thrown |-> FALSE]

\* A callback without the try/catch: the exception leaves replace.
CallbackNoCatch(matchVal, acc) ==
    LET t == TryReplace(matchVal, acc) IN
    IF t.thrown
      THEN [cache |-> acc.cache,
            cacheIndex |-> acc.cacheIndex,
            output |-> acc.output,
            threw |-> TRUE]
      ELSE t.acc

\* A callback that numbers the matches, parsed or not.
CallbackCountsMatches(matchVal, acc) ==
    LET t == TryReplace(matchVal, acc) IN
    IF t.thrown
      THEN [cache |-> acc.cache,
            cacheIndex |-> acc.cacheIndex + 1,
            output |-> acc.output \o matchVal,
            threw |-> acc.threw]
      ELSE t.acc

\* The replace callback: try { ... } catch (e) { console.log; return matchVal }
Callback(matchVal, acc) ==
    LET t == TryReplace(matchVal, acc) IN
    IF t.thrown
      THEN [cache |-> acc.cache,
            cacheIndex |-> acc.cacheIndex,
            output |-> acc.output \o matchVal,
            threw |-> acc.threw]
      ELSE t.acc

\* value.replace(regex, callback) from position i on: matches are taken left
\* to right and do not overlap; an exception ends the scan.
RECURSIVE ReplaceFrom(_, _, _)
ReplaceFrom(t, i, acc) ==
    IF i > Len(t) \/ acc.threw THEN acc
    ELSE LET e == MatchEnd(t, i) IN
         IF e # 0
           THEN ReplaceFrom(t, e + 1, Callback(SubSeq(t, i, e), acc))
           ELSE ReplaceFrom(t, i + 1, [acc EXCEPT !.output = acc.output \o <<t[i]>>])

\* const cachePluginContext = []; let cacheIndex = 0;
FreshAcc == [cache |-> <<>>, cacheIndex |-> 0, output |-> <<>>, threw |-> FALSE]

\* context.split('\trelations:')[0]
SplitValue(text) ==
    IF IndexOf(text, "R", 1) = 0 THEN text ELSE SubSeq(text, 1, IndexOf(text, "R", 1) - 1)

\* Fragments of a message: plain text, tags the parse accepts, tags it
\* rejects, a tag the stream cut before its closing tag, the relations suffix.
FragKinds == {"text", "good", "attr", "nlstr", "bad", "null", "nlout", "unclosed", "rel"}

\* Fragments of a message whose tags carry every status.
ViewKinds == {"text", "good", "attr", "nlstr", "todo", "failed", "nostatus"}

\* The characters of one fragment of a message.
FragText(k) ==
    CASE k = "text"     -> <<"x">>
      [] k = "good"     -> <<"<", "v", ">", "Jc", "<", "/", "v", ">">>
      [] k = "attr"     -> <<"<", "v", "x", ">", "Ju", "<", "/", "v", ">">>
      [] k = "nlstr"    -> <<"<", "v", ">", "S", "x", "nl", "E", "<", "/", "v", ">">>
      [] k = "bad"      -> <<"<", "v", ">", "B", "<", "/", "v", ">">>
      [] k = "null"     -> <<"<", "v", ">", "null", "<", "/", "v", ">">>
      [] k = "nlout"    -> <<"<", "v", ">", "Jc", "nl", "<", "/", "v", ">">>
      [] k = "unclosed" -> <<"<", "v", ">", "Jc">>
      [] k = "rel"      -> <<"R", "x">>
      [] k = "todo"     -> <<"<", "v", ">", "Jt", "<", "/", "v", ">">>
      [] k = "failed"   -> <<"<", "v", ">", "Jf", "<", "/", "v", ">">>
      [] k = "nostatus" -> <<"<", "v", ">", "Jn", "<", "/", "v", ">">>

RECURSIVE Flatten(_)
Flatten(fs) == IF fs = <<>> THEN <<>> ELSE FragText(Head(fs)) \o Flatten(Tail(fs))

FragSeqs == UNION {[1..n -> FragKinds] : n \in 0..MaxFrags}

ViewSeqs == UNION {[1..n -> ViewKinds] : n \in 0..MaxFrags}

\* The texts of the messages modelled here.
Texts == {Flatten(fs) : fs \in FragSeqs \cup ViewSeqs}

\* The body of the useMemo callback for a string context: a cache and an
\* index of its own, then the replace.  (Tabulated once over Texts: the
\* result depends on nothing but the text.)
MemoBody == [t \in Texts |-> ReplaceFrom(SplitValue(t), 1, FreshAcc)] @@ <<>>

\* A useMemo callback that keeps pushing to the array of the previous
\* computation (the cache and its index hoisted out of the callback).
useMemoShared(ctx, cache) ==
    IF ctx.type # "string"
      THEN [cache |-> cache, cacheIndex |-> Len(cache), output |-> <<>>, threw |-> FALSE]
      ELSE ReplaceFrom(SplitValue(ctx.text), 1,
                       [cache |-> cache,
                        cacheIndex |-> Len(cache),
                        output |-> <<>>,
                        threw |-> FALSE])

\* The useMemo callback.  A context that is not a string gives the empty
\* value and the empty cache.  cache is the array the previous computation
\* returned, which the callback never reads.
useMemo(ctx, cache) ==
    IF ctx.type # "string"
      THEN [cache |-> <<>>, cacheIndex |-> 0, output |-> <<>>, threw |-> FALSE]
      ELSE MemoBody[ctx.text]

-----------------------------------------------------------------------------
(* ChatContent: the custom-view component *)

pluginViewStatusMapper ==
    [completed |-> [bgClass |-> "bg-green-500", icon |-> "CheckOutlined"],
     failed    |-> [bgClass |-> "bg-red-500", icon |-> "CloseOutlined"],
     runing    |-> [bgClass |-> "bg-blue-500", icon |-> "LoadingOutlined"],
     todo      |-> [bgClass |-> "bg-gray-500", icon |-> "ClockCircleOutlined"]]

\* pluginViewStatusMapper[status]
Lookup(status) ==
    IF status \in DOMAIN pluginViewStatusMapper
      THEN [defined |-> TRUE, style |-> pluginViewStatusMapper[status]]
      ELSE [defined |-> FALSE]

\* The lookup without the "?? {}".
OrEmptyMissing(x) == x

\* x ?? {}: bgClass and icon of {} are undefined, shown here as "".
OrEmpty(x) ==
    IF x.defined THEN x ELSE [defined |-> TRUE, style |-> [bgClass |-> "", icon |-> ""]]

\* const { bgClass, icon } = pluginViewStatusMapper[status] ?? {}
\* Destructuring undefined is a TypeError.
StatusStyle(status) ==
    LET x == OrEmpty(Lookup(status)) IN
    IF x.defined
      THEN [bgClass |-> x.style.bgClass, icon |-> x.style.icon, threw |-> FALSE]
      ELSE [bgClass |-> "", icon |-> "", threw |-> TRUE]

\* 'custom-view'({ children }) with the cache of the current render.
CustomView(children, cache) ==
    LET index == ToNumber(children) IN
    IF ~(index + 1 \in DOMAIN cache)
      THEN [children |-> children, kind |-> "children", threw |-> FALSE]
      ELSE LET view == cache[index + 1]
               style == StatusStyle(view.status)
           IN [bgClass |-> style.bgClass,
               body |-> IF view.result # <<>> THEN "result" ELSE "err_msg",
               icon |-> style.icon,
               kind |-> "view",
               name |-> view.name,
               status |-> view.status,
               threw |-> style.threw]

NotRendered == [kind |-> "none", threw |-> FALSE]

-----------------------------------------------------------------------------
(* ChatContent: messages *)

StringContext(fs) == [text |-> Flatten(fs), type |-> "string"]

\* { template_name, template_introduce }
TemplateContext == [text |-> <<>>, type |-> "object"]

\* ChatContent renders a message: the useMemo callback runs on its context.
Render(ctx, fs) ==
    /\ msgNo < MaxMsgs
    /\ LET m == useMemo(ctx, cachePluginContext) IN
         /\ value' = m.output
         /\ cachePluginContext' = m.cache
         /\ crashed' = m.threw
    /\ context' = ctx
    /\ frags' = fs
    /\ rendered' = NotRendered
    /\ msgNo' = msgNo + 1
    /\ prevViews' = Len(cachePluginContext)
    /\ UNCHANGED <<tabVars, lifeVars>>

RenderString(fs) == Render(StringContext(fs), fs)

RenderTemplate == Render(TemplateContext, <<>>)

\* The markdown renderer meets a custom-view element with this text in it.
RenderCustomView(children) ==
    /\ LET r == CustomView(children, cachePluginContext) IN
         /\ rendered' = r
         /\ crashed' = r.threw
    /\ UNCHANGED <<context, value, cachePluginContext, frags, msgNo, prevViews>>
    /\ UNCHANGED <<tabVars, lifeVars>>

ChatIdle ==
    /\ context = TemplateContext
    /\ value = <<>>
    /\ cachePluginContext = <<>>
    /\ rendered = NotRendered
    /\ crashed = FALSE
    /\ frags = <<>>
    /\ msgNo = 0
    /\ prevViews = 0

-----------------------------------------------------------------------------
(* Specifications *)

\* First render with some data prop.
TabsInit ==
    /\ data \in DataUpTo(MaxMountLen)
    /\ mountData = data
    /\ activeKey = MountState(data).activeKey
    /\ isUserActive = MountState(data).isUserActive
    /\ tabItems = getTabItems(data)
    /\ mounted = TRUE
    /\ listeners = 1
    /\ lastEvent = "mount"
    /\ sel = NoSel
    /\ specKey = getLastActiveKey(data)
    /\ specFlag = FALSE

\* No tab view is mounted.
TabsIdle ==
    /\ data = <<>>
    /\ mountData = <<>>
    /\ activeKey = ""
    /\ isUserActive = FALSE
    /\ tabItems = <<>>
    /\ mounted = FALSE
    /\ listeners = 0
    /\ lastEvent = "unmount"
    /\ sel = NoSel
    /\ specKey = ""
    /\ specFlag = FALSE

Init == TabsInit /\ ChatIdle

Next ==
    \/ \E d \in AllData : DataArrive(d)
    \/ \E k \in TaskIds : OnChange(k)
    \/ \E k \in TaskIds : TaskClick(k)

Spec == Init /\ [][Next]_vars

\* The first message is rendered when ChatContent is constructed.
ChatInit(seqs) ==
    /\ TabsIdle
    /\ \E fs \in seqs :
         LET m == useMemo(StringContext(fs), <<>>) IN
           /\ context = StringContext(fs)
           /\ frags = fs
           /\ value = m.output
           /\ cachePluginContext = m.cache
           /\ crashed = m.threw
    /\ rendered = NotRendered
    /\ msgNo = 1
    /\ prevViews = 0

ChatNext ==
    \/ \E fs \in FragSeqs : RenderString(fs)
    \/ RenderTemplate

\* Messages rendered one after another.
SpecChat == ChatInit(FragSeqs) /\ [][ChatNext]_vars

\* No tab view has been mounted yet and ee has no listener.
LifeInit == TabsIdle /\ ChatIdle

LifeNext ==
    \/ \E d \in DataUpTo(MaxMountLen) : Mount(d)
    \/ Unmount
    \/ \E d \in DataUpTo(MaxMountLen) : LiveDataArrive(d)
    \/ \E k \in TaskIds : LiveOnChange(k)
    \/ \E k \in TaskIds : LiveTaskClick(k)
    \/ \E k \in TaskIds : EmitToUnmounted(k)

\* Tab views mounted and unmounted one after another on a page whose
\* emitter lives as long as the page.
SpecLife == LifeInit /\ [][LifeNext]_vars

ViewNext == \E i \in 0..MaxFrags : RenderCustomView(Numeral(i))

\* One message, and the markdown renderer calling the custom-view component.
SpecView == ChatInit(ViewSeqs) /\ [][ViewNext]_vars

-----------------------------------------------------------------------------
(* VisTabs: properties (specification Spec) *)

\* C1.  Auto-follow: while no user selection (tab click or TASK_CLICK) has
\* happened since the mount, the active key is the task_id of the last
\* record of the current data after every data arrival.
C1_AutoFollow ==
    sel.kind = "none" => activeKey = getLastActiveKey(data)

\* Data has arrived twice over the mount-time data, nobody has selected
\* anything, and the active tab is the new last one.
C1_Witness ==
    /\ sel.kind = "none"
    /\ lastEvent = "data"
    /\ Len(data) = 3
    /\ getLastActiveKey(data) # getLastActiveKey(mountData)
    /\ activeKey = data[3].task_id

\* C2.  Tab pin: after a tab click on a key K that was not the last task_id
\* of the data current at that click, the flag is set and the active key is K
\* after every later data arrival, until the next user selection.
C2_TabPin ==
    (sel.kind = "tab" /\ ~sel.wasLast) => (isUserActive /\ activeKey = sel.key)

\* The user pinned a tab, a third record was appended afterwards, and the
\* active tab is still the pinned one.
C2_Witness ==
    /\ sel.kind = "tab"
    /\ ~sel.wasLast
    /\ lastEvent = "data"
    /\ Len(data) = 3
    /\ getLastActiveKey(data) # sel.key
    /\ sel.key \in TabKeys(data)
    /\ activeKey = sel.key
    /\ isUserActive

\* C3.  Resume: a pinned user who clicks the tab whose key is the last
\* task_id of the data current at that click (whatever the data was at mount
\* time) clears the flag, and from then on a data arrival moves the active key
\* to the last record of the new data.
C3_Resume ==
    (sel.kind = "tab" /\ sel.wasLast /\ sel.flagBefore)
        => (~isUserActive /\ activeKey = getLastActiveKey(data))

\* The pinned user clicked the then-last tab, which was not the last tab at
\* mount time; a record was appended after it and the active tab followed.
C3_Witness ==
    /\ sel.kind = "tab"
    /\ sel.wasLast
    /\ sel.flagBefore
    /\ sel.key # getLastActiveKey(mountData)
    /\ lastEvent = "data"
    /\ Len(data) >= 2
    /\ data[Len(data) - 1].task_id = sel.key
    /\ activeKey = data[Len(data)].task_id
    /\ ~isUserActive

\* C4.  External click equivalence: in every reachable state a TASK_CLICK
\* carrying K leaves the same active key and flag as a click on tab K would.
C4_ExternalClickEquivalence ==
    \A k \in TabKeys(data) : TaskClickResult(k) = OnChangeResult(k)

\* C5.  Run to completion: after any interleaving of data arrivals, tab
\* clicks and TASK_CLICK events the active key and the flag are what the
\* transition rules of the design give when applied to the events one at a
\* time, in order.
C5_RunToCompletion ==
    activeKey = specKey /\ isUserActive = specFlag

-----------------------------------------------------------------------------
(* ChatContent: what a message is expected to become *)

WellFormedKinds == {"good", "attr", "nlstr", "todo", "failed", "nostatus"}

MalformedKinds == {"bad", "null", "nlout", "unclosed"}

\* The fragments in front of the relations suffix.
RECURSIVE Body(_)
Body(fs) ==
    IF fs = <<>> \/ Head(fs) = "rel" THEN <<>> ELSE <<Head(fs)>> \o Body(Tail(fs))

\* The record each well-formed tag carries, as the cache is to hold it.
ExpectedView(k) ==
    CASE k = "good"     -> [err_msg |-> Undefined,
                            name |-> "scan",
                            result |-> <<"o", "k", "nl">>,
                            status |-> "completed"]
      [] k = "attr"     -> [err_msg |-> "denied",
                            name |-> "probe",
                            result |-> <<>>,
                            status |-> "paused"]
      [] k = "nlstr"    -> [err_msg |-> Undefined,
                            name |-> "logs",
                            result |-> <<"x", "nl">>,
                            status |-> "runing"]
      [] k = "todo"     -> [err_msg |-> Undefined,
                            name |-> "plan",
                            result |-> <<>>,
                            status |-> "todo"]
      [] k = "failed"   -> [err_msg |-> "boom",
                            name |-> "exec",
                            result |-> <<>>,
                            status |-> "failed"]
      [] k = "nostatus" -> [err_msg |-> Undefined,
                            name |-> "bare",
                            result |-> <<>>,
                            status |-> Undefined]

\* Number of well-formed tags among the first n fragments.
RECURSIVE CountWellFormed(_, _)
CountWellFormed(fs, n) ==
    IF n = 0 THEN 0
    ELSE CountWellFormed(fs, n - 1) + (IF fs[n] \in WellFormedKinds THEN 1 ELSE 0)

\* Length of what a fragment leaves in the processed text.
PieceLen(k) == IF k \in WellFormedKinds THEN 3 ELSE Len(FragText(k))

RECURSIVE Offset(_, _)
Offset(fs, n) == IF n = 0 THEN 0 ELSE Offset(fs, n - 1) + PieceLen(fs[n])

\* What fragment i of the body left in the processed text.
Piece(i) ==
    LET b == Body(frags) IN SubSeq(value, Offset(b, i - 1) + 1, Offset(b, i))

\* The indices of the placeholders of a text, left to right.
RECURSIVE PlaceholderIndices(_)
PlaceholderIndices(t) ==
    IF t = <<>> THEN <<>>
    ELSE IF Head(t) = "<custom-view>"
      THEN <<ToNumber(t[2])>> \o PlaceholderIndices(Tail(t))
      ELSE PlaceholderIndices(Tail(t))

-----------------------------------------------------------------------------
(* ChatContent: properties (specifications SpecChat and SpecView) *)

C8_PlaceholderCacheCorrespondence ==
    LET b == Body(frags) IN
    context.type = "string" =>
      /\ PlaceholderIndices(value) = [i \in 1..Len(cachePluginContext) |-> i - 1]
      /\ \A i \in 1..Len(b) :
           b[i] \in WellFormedKinds =>
             /\ Piece(i) = Placeholder(CountWellFormed(b, i) - 1)
             /\ cachePluginContext[ToNumber(Piece(i)[2]) + 1] = ExpectedView(b[i])

\* The second message rendered holds a tag whose payload is null in front
\* of a well-formed one.
C8_Witness ==
    /\ msgNo = 2
    /\ frags = <<"null", "attr">>
    /\ value = FragText("null") \o Placeholder(0)
    /\ cachePluginContext = <<ExpectedView("attr")>>

\* C9.  The cache belongs to one rendering pass: whatever the messages
\* rendered before, the placeholders of a message start at 0 again and its
\* cache holds the records of its own tags and nothing else.
C9_CacheIsolation ==
    LET b == Body(frags)
        idx == PlaceholderIndices(value)
    IN /\ Len(cachePluginContext) = CountWellFormed(b, Len(b))
       /\ idx # <<>> => idx[1] = 0
       /\ context.type # "string" => (cachePluginContext = <<>> /\ value = <<>>)

\* A message with one tag rendered after a message with two.
C9_Witness ==
    /\ msgNo = 2
    /\ prevViews = 2
    /\ PlaceholderIndices(value) = <<0>>
    /\ Len(cachePluginContext) = 1

KnownStatuses == {"todo", "runing", "failed", "completed"}

\* C10.  The status mapper is total: whatever the status of a cached view,
\* rendering it throws nothing, and a status outside the known ones gives no
\* background class and no icon.
C10_StatusMapperTotal ==
    rendered.kind = "view" =>
      /\ ~rendered.threw
      /\ ~crashed
      /\ rendered.status \notin KnownStatuses =>
           (rendered.bgClass = "" /\ rendered.icon = "")
      /\ rendered.status \in KnownStatuses =>
           (rendered.bgClass # "" /\ rendered.icon # "")

\* A view whose status is none of the known ones has been rendered.
C10_Witness ==
    /\ rendered.kind = "view"
    /\ rendered.status = "paused"
    /\ rendered.bgClass = ""
    /\ rendered.icon = ""
    /\ ~crashed

-----------------------------------------------------------------------------
(* VisTabs: further properties (specifications Spec and SpecLife) *)

\* C11.  External resume: a TASK_CLICK whose taskId is the last task_id of
\* the data current at the event clears the flag, also when the data has
\* grown since the mount, so that the next data arrival moves the active key
\* to the new last record; a TASK_CLICK naming any other task sets the flag.
C11_ExternalResume ==
    /\ (sel.kind = "ext" /\ sel.wasLast)
         => (~isUserActive /\ activeKey = getLastActiveKey(data))
    /\ (sel.kind = "ext" /\ ~sel.wasLast) => isUserActive

\* C12.  Subscription lifecycle: the number of TASK_CLICK listeners on the
\* emitter is the number of mounted tab views (one when a view is mounted,
\* none when it is not), and no TASK_CLICK reaches an unmounted view.
C12_SubscriptionLifecycle ==
    /\ listeners = (IF mounted THEN 1 ELSE 0)
    /\ lastEvent # "orphan"

\* C13.  Initial state: right after a mount the flag is false and the active
\* key is the task_id of the last record of the data it was mounted with, the
\* empty string when that data is empty.
C13_InitialState ==
    (mounted /\ lastEvent = "mount") =>
      /\ ~isUserActive
      /\ IF data = <<>> THEN activeKey = ""
                        ELSE activeKey = data[Len(data)].task_id

\* A view has been mounted a second time, with two records.
C13_Witness ==
    /\ mounted
    /\ lastEvent = "mount"
    /\ listeners = 2
    /\ Len(data) = 2
    /\ activeKey = data[2].task_id
    /\ ~isUserActive

\* C14.  Selection sets the key: right after a user selection of K, by a tab
\* click or by a TASK_CLICK, the active key is K, whatever the active key
\* and the flag were before and whether or not K is the last key.
C14_SelectionSetsKey ==
    lastEvent \in {"tab", "ext"} => (sel.kind = lastEvent /\ activeKey = sel.key)

\* A pinned user clicked the tab of the last record, which was not the last
\* one at mount time.
C14_Witness ==
    /\ lastEvent = "tab"
    /\ sel.flagBefore
    /\ sel.wasLast
    /\ sel.key # getLastActiveKey(mountData)
    /\ Len(data) = 3
    /\ activeKey = sel.key

\* C15.  Tab derivation: the tab strip has one tab per record of the current
\* data, in order, tab i keyed by the task_id of record i; it is recomputed
\* on every data arrival and holds no tab without a record.
C15_TabDerivation ==
    /\ Len(tabItems) = Len(data)
    /\ \A i \in 1..Len(data) : tabItems[i].key = data[i].task_id

\* Data of two records was replaced by one record that was not among them.
C15_Witness ==
    /\ lastEvent = "data"
    /\ Len(mountData) = 2
    /\ Len(data) = 1
    /\ \A i \in 1..2 : mountData[i].task_id # data[1].task_id
    /\ tabItems = <<[key |-> data[1].task_id]>>

\* C16.  Auto-follow invariant: in every state between events, a false flag
\* means the active key is the task_id of the last record of the current
\* data (the empty string when there is none).
C16_AutoFollowInvariant ==
    ~isUserActive => activeKey = getLastActiveKey(data)

\* C17.  Active key validity: the active key is the empty string with empty
\* data, or the task_id of a record of the current data.
C17_ActiveKeyValid ==
    \/ data = <<>> /\ activeKey = ""
    \/ \E i \in 1..Len(data) : data[i].task_id = activeKey

\* C18.  Streaming stability: a data arrival that carries the same sequence
\* of task ids as before does not change the active key.
C18_StreamingStability ==
    [][(lastEvent' = "data" /\ data' = data) => activeKey' = activeKey]_vars

\* C19.  Flag frame condition: a data arrival does not change the flag, and
\* does not change the active key either when the flag is true; a step that
\* changes the flag is a tab click or a TASK_CLICK.
C19_FlagFrame ==
    [][/\ lastEvent' = "data" =>
            /\ isUserActive' = isUserActive
            /\ isUserActive => activeKey' = activeKey
       /\ isUserActive' # isUserActive => lastEvent' \in {"tab", "ext"}]_vars

\* Data of three records arrived while a TASK_CLICK had the user pinned on a
\* record that is not the last: flag and active key are as they were.
C19_Witness ==
    /\ lastEvent = "data"
    /\ isUserActive
    /\ sel.kind = "ext"
    /\ ~sel.wasLast
    /\ Len(data) = 3
    /\ activeKey = sel.key
    /\ activeKey # getLastActiveKey(data)

====
